---- MODULE Spec2Model ----
(***************************************************************************)
(* Model of main.py: the SoundCloud client-id discovery pipeline           *)
(* (token store, scraper, validator, get_client_id), the resolver, the     *)
(* rendition selector and the track / playlist download loop, driven by    *)
(* main().  Every HTTP answer and every file-system failure is an input    *)
(* chosen by the environment.                                              *)
(***************************************************************************)
EXTENDS Integers, Sequences, FiniteSets, TLC

(***************************************************************************)
(* Bounds of the model                                                     *)
(***************************************************************************)
MaxFileLen == 2
MaxTracks == 2

(***************************************************************************)
(* Values.  Strings are sequences of characters; None is Python's None.    *)
(***************************************************************************)
None == <<"<None>">>

\* what str.strip() and \s take for whitespace; TAB is also a control character
WhitespaceChars == {" ", "TAB", "NBSP"}
\* the range \x00-\x1F of the pattern
ControlChars == {"TAB", "NUL"}
ForbiddenChars == {"<", ">", ":", "DQUOTE", "BACKSLASH", "|", "?", "*"}

RECURSIVE LStrip(_)
LStrip(s) ==
    IF s = <<>> THEN s
    ELSE IF Head(s) \in WhitespaceChars THEN LStrip(Tail(s)) ELSE s

RECURSIVE RStrip(_)
RStrip(s) ==
    IF s = <<>> THEN s
    ELSE IF s[Len(s)] \in WhitespaceChars THEN RStrip(SubSeq(s, 1, Len(s) - 1)) ELSE s

\* str.strip()
Strip(s) == RStrip(LStrip(s))

\* str.replace("/", "-")
ReplaceSlash(s) == [i \in 1..Len(s) |-> IF s[i] = "/" THEN "-" ELSE s[i]]

\* re.sub(r'[<>:"\\|?*\x00-\x1F]', "", name)
RECURSIVE RemoveUnsafe(_)
RemoveUnsafe(s) ==
    IF s = <<>> THEN s
    ELSE IF Head(s) \in ForbiddenChars \cup ControlChars
         THEN RemoveUnsafe(Tail(s))
         ELSE <<Head(s)>> \o RemoveUnsafe(Tail(s))

\* re.sub(r"\s+", " ", name)
RECURSIVE CollapseSpace(_)
CollapseSpace(s) ==
    IF s = <<>> THEN s
    ELSE IF Head(s) \in WhitespaceChars
         THEN <<" ">> \o CollapseSpace(LStrip(Tail(s)))
         ELSE <<Head(s)>> \o CollapseSpace(Tail(s))

DefaultName == <<"a", "u", "d", "i", "o">>

clean_filename(name) ==
    LET n1 == ReplaceSlash(Strip(name))
        n2 == RemoveUnsafe(n1)
        n3 == Strip(CollapseSpace(n2))
    IN  IF n3 = <<>> THEN DefaultName ELSE n3

(***************************************************************************)
(* Token store                                                             *)
(***************************************************************************)
FileChars == {"a", " "}

FileContents == UNION {[1..n -> FileChars] : n \in 0..MaxFileLen}

\* get_cached_client_id: file is None when the cache file does not exist,
\* ioerr is an I/O error while opening or reading it
get_cached_client_id(file, ioerr) ==
    IF ioerr THEN None
    ELSE IF file = None THEN None
    ELSE IF Strip(file) = <<>> THEN None
    ELSE Strip(file)

\* The file after a failed save: open(..., "w") either failed (file untouched)
\* or succeeded and truncated the file before the write failed.
FailedSaveOutcomes(file) == {file, <<>>}

\* (mutant) the file is opened for writing and nothing is written
save_client_id_nothing_written(cid) == <<>>

\* save_client_id, the write going through
save_client_id(cid) == Strip(cid)

(***************************************************************************)
(* HTTP                                                                    *)
(***************************************************************************)
Statuses == {200, 304, 401, 403, 404, 500}

\* requests' Response.raise_for_status raises HTTPError for 4xx and 5xx
RaiseForStatus(status) == status >= 400 /\ status < 600

\* requests' Response.ok
ResponseOk(status) == ~RaiseForStatus(status)

\* A response of the validator's probe: a network failure or a status
ProbeResponses == {[net |-> TRUE, status |-> 0]} \cup
                  {[net |-> FALSE, status |-> s] : s \in Statuses}

check_client_id_valid(resp) ==
    IF resp.net THEN FALSE
    ELSE IF resp.status \in {401, 403} THEN FALSE
    ELSE ResponseOk(resp.status)

\* Bodies of an API answer: not JSON, JSON null, JSON {} and a JSON object
\* carrying the payload.  jsonexc tells whether the installed requests raises
\* its own JSONDecodeError (a RequestException) or a plain ValueError.
Bodies == {"nojson", "null", "empty", "data"}

ApiResponses ==
    {[net |-> TRUE, status |-> 0, body |-> "nojson", jsonexc |-> "requests"]} \cup
    {[net |-> FALSE, status |-> s, body |-> "nojson", jsonexc |-> "requests"] :
        s \in {x \in Statuses : RaiseForStatus(x)}} \cup
    {[net |-> FALSE, status |-> s, body |-> b, jsonexc |-> "requests"] :
        s \in {x \in Statuses : ~RaiseForStatus(x)}, b \in Bodies} \cup
    {[net |-> FALSE, status |-> s, body |-> "nojson", jsonexc |-> "value"] :
        s \in {x \in Statuses : ~RaiseForStatus(x)}}

\* api_request: raise is "none" when it returns, data what it returns
api_request(resp, allow_404) ==
    IF resp.net
        THEN [raise |-> "TransportError", data |-> "null"]
    ELSE IF resp.status = 404 /\ allow_404
        THEN [raise |-> "none", data |-> "null"]
    ELSE IF RaiseForStatus(resp.status)
        THEN IF resp.status \in {401, 403}
             THEN [raise |-> "CredentialRejected", data |-> "null"]
             ELSE [raise |-> "TransportError", data |-> "null"]
    ELSE IF resp.body = "nojson"
        THEN IF resp.jsonexc = "requests"
             THEN [raise |-> "TransportError", data |-> "null"]
             ELSE [raise |-> "Unexpected", data |-> "null"]
    ELSE [raise |-> "none", data |-> resp.body]

(***************************************************************************)
(* Credential scraper                                                      *)
(***************************************************************************)
\* Stand-ins for the 32-character alphanumeric tokens the patterns capture
Tokens == {<<"a">>, <<"b">>}

NumPatterns == 4
ScriptLimit == 20

\* A document is what each of the four patterns finds in it, in pattern
\* order: a token or None.
NoMatchDoc == [p \in 1..NumPatterns |-> None]

RECURSIVE FirstMatch(_)
\* for pattern in patterns: match = pattern.search(doc); if match: return
FirstMatch(doc) ==
    IF doc = <<>> THEN None
    ELSE IF Head(doc) # None THEN Head(doc) ELSE FirstMatch(Tail(doc))

Home == "soundcloud.com"

\* A script src is protocol-relative ("//host/path"), absolute or anything
\* else (joined to the home URL); the absolute URL is a host and a path.
NormalizeSrc(src) ==
    IF src.form = "protocol_relative" THEN [host |-> src.host, path |-> src.path]
    ELSE IF src.form = "absolute" THEN [host |-> src.host, path |-> src.path]
    ELSE [host |-> Home, path |-> src.path]

NormalizeAll(srcs) == [i \in 1..Len(srcs) |-> NormalizeSrc(srcs[i])]

RECURSIVE ExtraScripts(_)
\* the script URLs of the extra pages whose fetch came back ok
ExtraScripts(pages) ==
    IF pages = <<>> THEN <<>>
    ELSE (IF Head(pages).fetch = "ok" THEN NormalizeAll(Head(pages).scripts) ELSE <<>>)
         \o ExtraScripts(Tail(pages))

RECURSIVE DedupFrom(_, _)
DedupFrom(urls, seen) ==
    IF urls = <<>> THEN <<>>
    ELSE IF Head(urls) \in seen THEN DedupFrom(Tail(urls), seen)
    ELSE <<Head(urls)>> \o DedupFrom(Tail(urls), seen \cup {Head(urls)})

\* [u for u in script_urls if not (u in seen or seen.add(u))]
Dedup(urls) == DedupFrom(urls, {})

\* (mutant) the [:20] slice is missing
FirstN_all(s, n) == s

FirstN(s, n) == SubSeq(s, 1, IF Len(s) < n THEN Len(s) ELSE n)

RECURSIVE ScanScripts(_, _)
\* the loop over script_urls[:20]; js maps a URL to its fetch outcome and text
ScanScripts(urls, js) ==
    IF urls = <<>> THEN None
    ELSE LET b == js[Head(urls)]
         IN  IF b.fetch = "ok" /\ FirstMatch(b.doc) # None
             THEN FirstMatch(b.doc)
             ELSE ScanScripts(Tail(urls), js)

\* (mutant) the match is used without testing it: AttributeError when no
\* pattern matches anywhere
find_client_id_unchecked_match(site) ==
    IF site.root_fetch # "ok"
        THEN [err |-> "TransportError", token |-> None]
    ELSE IF FirstMatch(site.html) # None
        THEN [err |-> "none", token |-> FirstMatch(site.html)]
    ELSE LET script_urls == Dedup(NormalizeAll(site.scripts) \o ExtraScripts(site.extras))
             found == ScanScripts(FirstN(script_urls, ScriptLimit), site.js)
         IN  IF found # None
             THEN [err |-> "none", token |-> found]
             ELSE [err |-> "Unexpected", token |-> None]

\* find_client_id against one snapshot of the site.  err is "none" when a
\* token is returned.
find_client_id(site) ==
    IF site.root_fetch # "ok"
        THEN [err |-> "TransportError", token |-> None]
    ELSE IF FirstMatch(site.html) # None
        THEN [err |-> "none", token |-> FirstMatch(site.html)]
    ELSE LET script_urls == Dedup(NormalizeAll(site.scripts) \o ExtraScripts(site.extras))
             found == ScanScripts(FirstN(script_urls, ScriptLimit), site.js)
         IN  IF found # None
             THEN [err |-> "none", token |-> found]
             ELSE [err |-> "CredentialNotFound", token |-> None]

\* The snapshots of the site the scraper is run against
DocWith(p, t) == [q \in 1..NumPatterns |-> IF q = p THEN t ELSE None]

Urls == {[host |-> "cdn", path |-> "p1"], [host |-> Home, path |-> "p1"]}

SrcLists == {<<>>,
             <<[form |-> "protocol_relative", host |-> "cdn", path |-> "p1"]>>,
             <<[form |-> "absolute", host |-> "cdn", path |-> "p1"],
               [form |-> "path", host |-> "", path |-> "p1"]>>}

Bundles == {[fetch |-> f, doc |-> NoMatchDoc] : f \in {"ok", "http", "net", "empty"}} \cup
           {[fetch |-> "ok", doc |-> DocWith(p, t)] : p \in {1, NumPatterns}, t \in Tokens}

ExtraPages == {<<[fetch |-> f, scripts |-> <<>>],
                 [fetch |-> "ok", scripts |-> s]>> : f \in {"ok", "http", "net"},
                                                     s \in SrcLists}

Sites ==
    {[root_fetch |-> f, html |-> NoMatchDoc, scripts |-> <<>>,
      extras |-> <<>>, js |-> [u \in Urls |-> [fetch |-> "net", doc |-> NoMatchDoc]]] :
        f \in {"http", "net"}} \cup
    {[root_fetch |-> "ok", html |-> h, scripts |-> s, extras |-> e,
      js |-> [u \in Urls |-> IF u.host = "cdn" THEN b ELSE [fetch |-> "ok", doc |-> DocWith(2, <<"b">>)]]] :
        h \in {NoMatchDoc, DocWith(3, <<"a">>)}, s \in SrcLists, e \in ExtraPages,
        b \in Bundles}

(***************************************************************************)
(* Rendition selector                                                      *)
(***************************************************************************)
NoTranscoding == <<>>

\* "audio/mpeg" in mime_type, over the MIME types of the model ("" stands for
\* a descriptor without a format)
MimeTypes == {"audio/mpeg", "audio/mpeg; codecs=mp3", "audio/ogg", ""}

ContainsAudioMpeg(mime_type) == mime_type \in {"audio/mpeg", "audio/mpeg; codecs=mp3"}

RECURSIVE find_mp3_transcoding_any_protocol(_)
\* (mutant) the protocol is not looked at
find_mp3_transcoding_any_protocol(transcodings) ==
    IF transcodings = <<>> THEN NoTranscoding
    ELSE IF ContainsAudioMpeg(Head(transcodings).mime_type)
         THEN <<Head(transcodings)>>
         ELSE find_mp3_transcoding_any_protocol(Tail(transcodings))

RECURSIVE find_mp3_transcoding(_)
\* the first transcoding that is audio/mpeg and progressive (as a one-element
\* sequence), or NoTranscoding for None
find_mp3_transcoding(transcodings) ==
    IF transcodings = <<>> THEN NoTranscoding
    ELSE IF ContainsAudioMpeg(Head(transcodings).mime_type) /\ Head(transcodings).protocol = "progressive"
         THEN <<Head(transcodings)>>
         ELSE find_mp3_transcoding(Tail(transcodings))

Mp3Progressive == [mime_type |-> "audio/mpeg", protocol |-> "progressive", url |-> "u_mp3"]
Mp3Hls == [mime_type |-> "audio/mpeg", protocol |-> "hls", url |-> "u_hls"]
OpusProgressive == [mime_type |-> "audio/ogg", protocol |-> "progressive", url |-> "u_opus"]

TitleX == <<"x">>

\* The tracks of the model: one without an eligible rendition, one with
Tracks == {[title |-> TitleX, transcodings |-> <<Mp3Hls, OpusProgressive>>],
           [title |-> TitleX, transcodings |-> <<Mp3Hls, Mp3Progressive>>]}

TrackLists == UNION {[1..n -> Tracks] : n \in 0..MaxTracks}

NoEntity == [kind |-> "none", track |-> <<>>, has_tracks |-> FALSE, tracks |-> <<>>]

\* What the resolve endpoint can describe
\* (has_tracks is FALSE when the payload has no "tracks" key or a null one)
Entities ==
    {[kind |-> "track", track |-> <<t>>, has_tracks |-> FALSE, tracks |-> <<>>] : t \in Tracks} \cup
    {[kind |-> k, track |-> <<>>, has_tracks |-> TRUE, tracks |-> ts] :
        k \in {"playlist", "system-playlist"}, ts \in TrackLists} \cup
    {[kind |-> k, track |-> <<>>, has_tracks |-> FALSE, tracks |-> <<>>] :
        k \in {"playlist", "system-playlist"}} \cup
    {[kind |-> "user", track |-> <<>>, has_tracks |-> FALSE, tracks |-> <<>>]}

\* tracks = resolved_data.get("tracks") or []
TracksOf(data) == IF data.has_tracks THEN data.tracks ELSE <<>>

\* filename = clean_filename(f"{artist} - {title}") + ".mp3"; the artist of
\* every track of the model is "a"
Filename(track) == clean_filename(<<"a", " ", "-", " ">> \o track.title)

\* Paths of the output directory: <<name, 1>> is "name.mp3" and <<name, n>>
\* is "name (n).mp3"
RECURSIVE FreePath(_, _, _)
\* while os.path.exists(save_path): save_path = f"{base} ({counter}){ext}"
FreePath(name, n, files) ==
    IF <<name, n>> \in files THEN FreePath(name, n + 1, files) ELSE <<name, n>>

\* (mutant) the existence test is an if, not a while
SavePath_checks_once(name, files) ==
    IF <<name, 1>> \in files THEN <<name, 2>> ELSE <<name, 1>>

SavePath(name, files) == FreePath(name, 1, files)

DownloadOutcomes == {"ok", "http", "net", "partial", "oserror"}

InitialDirs == {{}, {<<Filename([title |-> TitleX]), 1>>}}

(***************************************************************************)
(* State                                                                   *)
(***************************************************************************)
VARIABLES
    pc,             \* position of main(): the operation it runs next
    err,            \* the exception that ended the run, "none" otherwise
    exit_status,    \* -1 while running
    cache_file,     \* content of ~/.soundcloud_client_id, None when absent
    load_error,     \* the cache read hit an I/O error
    save_result,    \* "none", "ok" or "failed"
    saves,          \* calls of save_client_id
    cached_id,      \* get_client_id's locals
    new_id,
    client_id,      \* main's client_id: what get_client_id returned
    scrapes,        \* calls of find_client_id
    probes,         \* log of check_client_id_valid calls
    slept,          \* time.sleep(0.5) has run
    creds_used,     \* client_id values attached to api_request calls
    resolve_resp,   \* the answer of the resolve endpoint
    resolved_data,
    idx,            \* position of the track loop
    success_count,
    total_count,
    outcomes,       \* per attempted track: "ok", "skipped" or the error raised
    report,         \* <<success_count, total_count>> once printed
    files,          \* paths existing in the output directory
    exchanged,      \* transcoding URLs sent to api_request, in call order
    saved,          \* save_path of every download_file call, with the
                    \* directory content at the moment it was chosen
    s_pc,           \* position inside one find_client_id call
    s_html,         \* what the patterns find in the root HTML
    s_raw,          \* script_urls before the duplicates are removed
    s_urls,         \* script_urls
    s_page,         \* index into extra_pages
    s_i,            \* index into script_urls[:20]
    s_log,          \* the session.get calls of the scraper, in order
    s_last,         \* the answer to the last script fetch
    s_result,       \* what find_client_id returned or raised
    cf_name,        \* argument of one clean_filename call
    cf_result       \* its result, None before the call

ctlVars == <<pc, err, exit_status>>
storeVars == <<cache_file, load_error, save_result, saves>>
credVars == <<cached_id, new_id, client_id, scrapes, probes, slept>>
apiVars == <<creds_used, resolve_resp, resolved_data>>
loopVars == <<idx, success_count, total_count, outcomes, report, files, exchanged, saved>>
scrapeVars == <<s_pc, s_html, s_raw, s_urls, s_page, s_i, s_log, s_last, s_result>>
cleanVars == <<cf_name, cf_result>>
auxVars == <<scrapeVars, cleanVars>>
vars == <<ctlVars, storeVars, credVars, apiVars, loopVars, auxVars>>

NoResp == [net |-> FALSE, status |-> 0, body |-> "none", jsonexc |-> "none"]
NoReport == <<>>

NoBundle == [fetch |-> "none", doc |-> NoMatchDoc]
NoResult == [err |-> "pending", token |-> None]

\* the variables of the find_client_id and clean_filename runs, at rest
AuxIdle ==
    /\ s_pc = "idle"
    /\ s_html = NoMatchDoc
    /\ s_raw = <<>>
    /\ s_urls = <<>>
    /\ s_page = 0
    /\ s_i = 0
    /\ s_log = <<>>
    /\ s_last = NoBundle
    /\ s_result = NoResult
    /\ cf_name = <<>>
    /\ cf_result = None

Init ==
    /\ AuxIdle
    /\ exchanged = <<>>
    /\ saved = <<>>
    /\ pc = "load"
    /\ err = "none"
    /\ exit_status = -1
    /\ cache_file \in FileContents \cup {None}
    /\ load_error = FALSE
    /\ save_result = "none"
    /\ saves = 0
    /\ cached_id = None
    /\ new_id = None
    /\ client_id = None
    /\ scrapes = 0
    /\ probes = <<>>
    /\ slept = FALSE
    /\ creds_used = {}
    /\ resolve_resp = NoResp
    /\ resolved_data = NoEntity
    /\ idx = 0
    /\ success_count = 0
    /\ total_count = 0
    /\ outcomes = <<>>
    /\ report = NoReport
    /\ files \in InitialDirs

(***************************************************************************)
(* main's exception handlers                                               *)
(***************************************************************************)
\* (mutant) the interrupt handler exits like the error handlers
ExitStatus_same_for_all(kind) == 1

ExitStatus(kind) == IF kind = "KeyboardInterrupt" THEN 130 ELSE 1

\* an exception of the given kind reaches main's handlers
Fail(kind) ==
    /\ err' = kind
    /\ exit_status' = ExitStatus(kind)
    /\ pc' = "exit"

Continue(next) ==
    /\ pc' = next
    /\ UNCHANGED <<err, exit_status>>

(***************************************************************************)
(* get_client_id                                                           *)
(***************************************************************************)
\* (mutant) the read error is not caught
OnLoadError_uncaught ==
    /\ UNCHANGED cached_id
    /\ Fail("Unexpected")

\* except Exception: pass; return None
OnLoadError ==
    /\ cached_id' = None
    /\ Continue("scrape1")

LoadCache ==
    /\ pc = "load"
    /\ \E ioerr \in (IF cache_file = None THEN {FALSE} ELSE BOOLEAN) :
        /\ load_error' = ioerr
        /\ IF ioerr
           THEN OnLoadError
           ELSE /\ cached_id' = get_cached_client_id(cache_file, FALSE)
                /\ Continue(IF cached_id' # None THEN "validate_cached" ELSE "scrape1")
    /\ UNCHANGED <<cache_file, save_result, saves, new_id, client_id, scrapes,
                   probes, slept, apiVars, loopVars, auxVars>>

Is2xx(resp) == ~resp.net /\ resp.status >= 200 /\ resp.status < 300

Probe(cid, src, resp) ==
    [cid |-> cid, src |-> src, valid |-> check_client_id_valid(resp),
     success |-> Is2xx(resp)]

\* (mutant) the confirmed cached id is not returned: the scrape runs anyway
CachedConfirmed_scrapes_anyway ==
    /\ UNCHANGED <<client_id, cache_file>>
    /\ Continue("scrape1")

\* return cached_id
CachedConfirmed ==
    /\ client_id' = cached_id
    /\ UNCHANGED cache_file
    /\ Continue("resolve")

\* (mutant) a cached id the validator rejects is deleted from the store
CachedRejected_discards ==
    /\ cache_file' = None
    /\ UNCHANGED client_id
    /\ Continue("scrape1")

\* the cached id does not validate: fall through to the scrape, the cache
\* file is left as it is
CachedRejected ==
    /\ UNCHANGED <<client_id, cache_file>>
    /\ Continue("scrape1")

ValidateCached ==
    /\ pc = "validate_cached"
    /\ \E resp \in ProbeResponses :
        /\ probes' = Append(probes, Probe(cached_id, "cache", resp))
        /\ IF check_client_id_valid(resp)
           THEN CachedConfirmed
           ELSE CachedRejected
    /\ UNCHANGED <<load_error, save_result, saves, cached_id, new_id, scrapes, slept,
                   apiVars, loopVars, auxVars>>

\* new_id = find_client_id(session)
Scrape(next) ==
    /\ \E site \in Sites :
        LET res == find_client_id(site)
        IN  IF res.err # "none"
            THEN Fail(res.err) /\ UNCHANGED new_id
            ELSE new_id' = res.token /\ Continue(next)
    /\ scrapes' = scrapes + 1
    /\ UNCHANGED <<storeVars, cached_id, client_id, probes, slept, apiVars, loopVars, auxVars>>

Scrape1 == pc = "scrape1" /\ Scrape("validate1")

\* (mutant) no retry: the first invalid candidate is final
FirstCandidateInvalid_no_retry == Fail("CredentialUnavailable")

\* the first candidate does not validate: sleep, then scrape again
FirstCandidateInvalid == Continue("sleep")

Validate1 ==
    /\ pc = "validate1"
    /\ \E resp \in ProbeResponses :
        /\ probes' = Append(probes, Probe(new_id, "scrape1", resp))
        /\ IF check_client_id_valid(resp)
           THEN Continue("save")
           ELSE FirstCandidateInvalid
    /\ UNCHANGED <<storeVars, cached_id, new_id, client_id, scrapes, slept, apiVars, loopVars, auxVars>>

Sleep ==
    /\ pc = "sleep"
    /\ slept' = TRUE
    /\ Continue("scrape2")
    /\ UNCHANGED <<storeVars, cached_id, new_id, client_id, scrapes, probes, apiVars, loopVars, auxVars>>

Scrape2 == pc = "scrape2" /\ Scrape("validate2")

\* (mutant) the raise is missing: the unconfirmed candidate is saved and returned
SecondCandidateInvalid_returned == Continue("save")

\* raise SoundCloudError("found client id but it doesn't work...")
SecondCandidateInvalid == Fail("CredentialUnavailable")

Validate2 ==
    /\ pc = "validate2"
    /\ \E resp \in ProbeResponses :
        /\ probes' = Append(probes, Probe(new_id, "scrape2", resp))
        /\ IF check_client_id_valid(resp)
           THEN Continue("save")
           ELSE SecondCandidateInvalid
    /\ UNCHANGED <<storeVars, cached_id, new_id, client_id, scrapes, slept, apiVars, loopVars, auxVars>>

\* except Exception: pass
OnSaveError ==
    /\ cache_file' \in FailedSaveOutcomes(cache_file)
    /\ save_result' = "failed"
    /\ client_id' = new_id
    /\ Continue("resolve")

\* save_client_id(new_id); return new_id
Save ==
    /\ pc = "save"
    /\ \E ioerr \in BOOLEAN :
        IF ioerr
        THEN OnSaveError
        ELSE /\ cache_file' = save_client_id(new_id)
             /\ save_result' = "ok"
             /\ client_id' = new_id
             /\ Continue("resolve")
    /\ saves' = saves + 1
    /\ UNCHANGED <<load_error, cached_id, new_id, scrapes, probes, slept, apiVars, loopVars, auxVars>>

(***************************************************************************)
(* resolve_soundcloud_url                                                  *)
(***************************************************************************)
\* (mutant) a rejected credential starts a new discovery
OnApiError_rediscovers(kind) ==
    IF kind = "CredentialRejected" THEN Continue("scrape1") ELSE Fail(kind)

\* an error of api_request reaches main: reported, never retried
OnApiError(kind) == Fail(kind)

Resolve ==
    /\ pc = "resolve"
    /\ creds_used' = creds_used \cup {client_id}
    /\ \E resp \in ApiResponses :
        LET out == api_request(resp, FALSE)
        IN  /\ resolve_resp' = resp
            /\ IF out.raise # "none"
               THEN OnApiError(out.raise) /\ UNCHANGED resolved_data
               ELSE IF out.data \in {"null", "empty"}
               THEN Fail("UnresolvableUrl") /\ UNCHANGED resolved_data
               ELSE /\ resolved_data' \in Entities
                    /\ Continue("handle")
    /\ UNCHANGED <<storeVars, credVars, loopVars, auxVars>>

(***************************************************************************)
(* handle_download and download_track                                      *)
(***************************************************************************)
\* (mutant) no check for an empty playlist: the loop runs zero times and the
\* report is printed
NoTracks_reported ==
    /\ idx' = 1
    /\ Continue("report")

\* if not total_count: raise SoundCloudError("this playlist has no tracks.")
NoTracks ==
    /\ UNCHANGED idx
    /\ Fail("EmptyPlaylist")

HandleDownload ==
    /\ pc = "handle"
    /\ IF resolved_data.kind = "track"
       THEN /\ total_count' = 1
            /\ idx' = 1
            /\ Continue("track")
       ELSE IF resolved_data.kind \in {"playlist", "system-playlist"}
       THEN /\ total_count' = Len(TracksOf(resolved_data))
            /\ IF Len(TracksOf(resolved_data)) = 0
               THEN NoTracks
               ELSE idx' = 1 /\ Continue("track")
       ELSE /\ Fail("UnsupportedType")
            /\ UNCHANGED <<idx, total_count>>
    /\ UNCHANGED <<storeVars, credVars, apiVars, success_count, outcomes, report, files,
                   exchanged, saved, auxVars>>

CurrentTrack ==
    IF resolved_data.kind = "track" THEN resolved_data.track[1]
    ELSE TracksOf(resolved_data)[idx]

\* download_track returned: the loop goes on, or the report is due
NextTrack ==
    /\ idx' = idx + 1
    /\ Continue(IF idx = total_count THEN "report" ELSE "track")

\* download_track raised
\* (mutant) a skipped track is counted as a download
TrackSkipped_counted ==
    /\ outcomes' = Append(outcomes, "skipped")
    /\ success_count' = success_count + 1
    /\ NextTrack

\* download_track returns False: "skipping (no mp3 available)"
TrackSkipped ==
    /\ outcomes' = Append(outcomes, "skipped")
    /\ UNCHANGED success_count
    /\ NextTrack

TrackRaises(kind) ==
    /\ outcomes' = Append(outcomes, kind)
    /\ Fail(kind)
    /\ UNCHANGED <<idx, success_count>>

DownloadTrack ==
    /\ pc = "track"
    /\ LET track == CurrentTrack
           transcoding == find_mp3_transcoding(track.transcodings)
       IN  IF transcoding = NoTranscoding
           THEN /\ TrackSkipped
                /\ UNCHANGED <<creds_used, files, exchanged, saved>>
           ELSE /\ creds_used' = creds_used \cup {client_id}
                /\ exchanged' = Append(exchanged, transcoding[1].url)
                /\ \E resp \in ApiResponses :
                    LET out == api_request(resp, FALSE)
                    IN  IF out.raise # "none"
                        THEN TrackRaises(out.raise) /\ UNCHANGED <<files, saved>>
                        ELSE IF out.data = "null"
                        THEN TrackRaises("Unexpected") /\ UNCHANGED <<files, saved>>
                        ELSE IF out.data = "empty"
                        THEN TrackRaises("MediaUrlMissing") /\ UNCHANGED <<files, saved>>
                        ELSE \E dl \in DownloadOutcomes :
                            LET save_path == SavePath(Filename(track), files)
                            IN  /\ saved' = Append(saved, [path |-> save_path, dir |-> files])
                                /\ IF dl = "ok"
                                   THEN /\ files' = files \cup {save_path}
                                        /\ success_count' = success_count + 1
                                        /\ outcomes' = Append(outcomes, "ok")
                                        /\ NextTrack
                                   ELSE IF dl = "partial"
                                   THEN files' = files \cup {save_path} /\ TrackRaises("TransportError")
                                   ELSE IF dl = "oserror"
                                   THEN UNCHANGED files /\ TrackRaises("Unexpected")
                                   ELSE UNCHANGED files /\ TrackRaises("TransportError")
    /\ UNCHANGED <<storeVars, credVars, resolve_resp, resolved_data, total_count, report, auxVars>>

\* print(f"done. downloaded {success_count}/{total_count} tracks."); main returns
Report ==
    /\ pc = "report"
    /\ report' = <<success_count, total_count>>
    /\ pc' = "exit"
    /\ exit_status' = 0
    /\ UNCHANGED <<err, storeVars, credVars, apiVars, idx, success_count, total_count,
                   outcomes, files, exchanged, saved, auxVars>>

\* KeyboardInterrupt anywhere inside main's try block
Interrupt ==
    /\ pc # "exit"
    /\ Fail("KeyboardInterrupt")
    /\ UNCHANGED <<storeVars, credVars, apiVars, loopVars, auxVars>>

Next ==
    \/ LoadCache
    \/ ValidateCached
    \/ Scrape1
    \/ Validate1
    \/ Sleep
    \/ Scrape2
    \/ Validate2
    \/ Save
    \/ Resolve
    \/ HandleDownload
    \/ DownloadTrack
    \/ Report
    \/ Interrupt

Spec == Init /\ [][Next]_vars

(***************************************************************************)
(* handle_download alone, over more tracks, descriptors and directories:   *)
(* the run starts where resolve_soundcloud_url has just returned.          *)
(***************************************************************************)
DlTracks == 3
MaxDescriptors == 2
MaxExisting == 3

WideDescriptors ==
    {[mime_type |-> "audio/mpeg", protocol |-> "progressive", url |-> "u1"],
     [mime_type |-> "audio/mpeg; codecs=mp3", protocol |-> "progressive", url |-> "u2"],
     [mime_type |-> "audio/mpeg", protocol |-> "hls", url |-> "u3"],
     [mime_type |-> "audio/ogg", protocol |-> "progressive", url |-> "u4"],
     [mime_type |-> "", protocol |-> "", url |-> "u5"]}

WideTracks ==
    {[title |-> TitleX, transcodings |-> ds] :
        ds \in UNION {[1..n -> WideDescriptors] : n \in 0..MaxDescriptors}}

DlEntities ==
    {[kind |-> "track", track |-> <<t>>, has_tracks |-> FALSE, tracks |-> <<>>] :
        t \in WideTracks} \cup
    {[kind |-> k, track |-> <<>>, has_tracks |-> TRUE, tracks |-> ts] :
        k \in {"playlist", "system-playlist"},
        ts \in UNION {[1..n -> Tracks] : n \in 1..DlTracks}}

WideDirs == SUBSET {<<Filename([title |-> TitleX]), n>> : n \in 1..MaxExisting}

InitDownload ==
    /\ AuxIdle
    /\ pc = "handle"
    /\ err = "none"
    /\ exit_status = -1
    /\ cache_file = <<"a">>
    /\ load_error = FALSE
    /\ save_result = "none"
    /\ saves = 0
    /\ cached_id = <<"a">>
    /\ new_id = None
    /\ client_id = <<"a">>
    /\ scrapes = 0
    /\ probes = <<Probe(<<"a">>, "cache", [net |-> FALSE, status |-> 200])>>
    /\ slept = FALSE
    /\ creds_used = {<<"a">>}
    /\ resolve_resp = [net |-> FALSE, status |-> 200, body |-> "data", jsonexc |-> "requests"]
    /\ resolved_data \in DlEntities
    /\ idx = 0
    /\ success_count = 0
    /\ total_count = 0
    /\ outcomes = <<>>
    /\ report = NoReport
    /\ files \in WideDirs
    /\ exchanged = <<>>
    /\ saved = <<>>

NextDownload ==
    \/ HandleDownload
    \/ DownloadTrack
    \/ Report
    \/ Interrupt

SpecDownload == InitDownload /\ [][NextDownload]_vars

(***************************************************************************)
(* find_client_id alone, one session.get per step.  The run starts where   *)
(* get_client_id calls it for the first time.                              *)
(***************************************************************************)
LongLen == 21
NumExtraPages == 2

mainVars == <<ctlVars, storeVars, credVars, apiVars, loopVars>>

Src(form, host, path) == [form |-> form, host |-> host, path |-> path]

\* LongLen + 1 script tags, the second repeating the first
LongSrcs ==
    [i \in 1..(LongLen + 1) |->
        Src("absolute", "cdn", IF i = 2 THEN 1 ELSE i)]

RootSrcLists ==
    {<<>>,
     <<Src("protocol_relative", "cdn", 1), Src("absolute", "cdn", 1), Src("path", "", 1)>>,
     <<Src("path", "", 2), Src("absolute", "cdn", 1), Src("absolute", Home, 2)>>,
     LongSrcs}

ExtraSrcLists ==
    {<<>>, <<Src("absolute", "cdn", 1), Src("path", "", 30)>>}

HtmlDocs ==
    {NoMatchDoc, DocWith(1, <<"a">>), DocWith(NumPatterns, <<"b">>),
     [q \in 1..NumPatterns |-> IF q = 2 THEN <<"b">> ELSE IF q = 3 THEN <<"a">> ELSE None]}

PageUrl(k) == [host |-> Home, path |-> 0 - k]

LogEntry(kind, url, flag) == [kind |-> kind, url |-> url, flag |-> flag]

InitScrape ==
    /\ pc = "scrape1"
    /\ err = "none"
    /\ exit_status = -1
    /\ cache_file = None
    /\ load_error = FALSE
    /\ save_result = "none"
    /\ saves = 0
    /\ cached_id = None
    /\ new_id = None
    /\ client_id = None
    /\ scrapes = 0
    /\ probes = <<>>
    /\ slept = FALSE
    /\ creds_used = {}
    /\ resolve_resp = NoResp
    /\ resolved_data = NoEntity
    /\ idx = 0
    /\ success_count = 0
    /\ total_count = 0
    /\ outcomes = <<>>
    /\ report = NoReport
    /\ files = {}
    /\ exchanged = <<>>
    /\ saved = <<>>
    /\ s_pc = "root"
    /\ s_html = NoMatchDoc
    /\ s_raw = <<>>
    /\ s_urls = <<>>
    /\ s_page = 0
    /\ s_i = 0
    /\ s_log = <<>>
    /\ s_last = NoBundle
    /\ s_result = NoResult
    /\ cf_name = <<>>
    /\ cf_result = None

\* r = session.get(soundcloud_home); r.raise_for_status(); the script tags
FetchRoot ==
    /\ s_pc = "root"
    /\ \E fetch \in {"ok", "http", "net"} :
        IF fetch # "ok"
        THEN /\ s_log' = Append(s_log, LogEntry("root", PageUrl(0), FALSE))
             /\ s_result' = [err |-> "TransportError", token |-> None]
             /\ s_pc' = "done"
             /\ UNCHANGED <<s_html, s_raw, s_page>>
        ELSE \E html \in HtmlDocs, srcs \in RootSrcLists :
             /\ s_log' = Append(s_log, LogEntry("root", PageUrl(0), TRUE))
             /\ s_html' = html
             /\ s_raw' = NormalizeAll(srcs)
             /\ s_page' = 1
             /\ s_pc' = "extra"
             /\ UNCHANGED s_result
    /\ UNCHANGED <<s_urls, s_i, s_last, cleanVars, mainVars>>

\* for page in extra_pages: the next page, or on to the scan
AfterExtraPage ==
    IF s_page = NumExtraPages
    THEN s_pc' = "html" /\ UNCHANGED s_page
    ELSE s_pc' = "extra" /\ s_page' = s_page + 1

\* (mutant) a failing extra page ends the scrape
ExtraPageFailed_fatal ==
    /\ UNCHANGED <<s_raw, s_page>>
    /\ s_result' = [err |-> "TransportError", token |-> None]
    /\ s_pc' = "done"

\* rr.ok is false, or except Exception: pass
ExtraPageFailed ==
    /\ UNCHANGED <<s_raw, s_result>>
    /\ AfterExtraPage

FetchExtra ==
    /\ s_pc = "extra"
    /\ \E fetch \in {"ok", "notok", "net"} :
        /\ s_log' = Append(s_log, LogEntry("extra", PageUrl(s_page), fetch = "ok"))
        /\ IF fetch = "ok"
           THEN \E srcs \in ExtraSrcLists :
                /\ s_raw' = s_raw \o NormalizeAll(srcs)
                /\ UNCHANGED s_result
                /\ AfterExtraPage
           ELSE ExtraPageFailed
    /\ UNCHANGED <<s_html, s_urls, s_i, s_last, cleanVars, mainVars>>

\* remove duplicates, then check the html first
ScanHtml ==
    /\ s_pc = "html"
    /\ s_urls' = Dedup(s_raw)
    /\ IF FirstMatch(s_html) # None
       THEN /\ s_result' = [err |-> "none", token |-> FirstMatch(s_html)]
            /\ s_pc' = "done"
            /\ UNCHANGED s_i
       ELSE /\ s_i' = 1
            /\ s_pc' = "js"
            /\ UNCHANGED s_result
    /\ UNCHANGED <<s_html, s_raw, s_page, s_log, s_last, cleanVars, mainVars>>

BundleMatches(b) == b.fetch = "ok" /\ FirstMatch(b.doc) # None

\* one iteration of: for i, js_url in enumerate(script_urls[:20])
FetchScript ==
    /\ s_pc = "js"
    /\ s_i <= Len(FirstN(s_urls, ScriptLimit))
    /\ \E b \in Bundles :
        /\ s_last' = b
        /\ s_log' = Append(s_log, LogEntry("js", s_urls[s_i], BundleMatches(b)))
        /\ IF BundleMatches(b)
           THEN /\ s_result' = [err |-> "none", token |-> FirstMatch(b.doc)]
                /\ s_pc' = "done"
                /\ UNCHANGED s_i
           ELSE /\ s_i' = s_i + 1
                /\ UNCHANGED <<s_pc, s_result>>
    /\ UNCHANGED <<s_html, s_raw, s_urls, s_page, cleanVars, mainVars>>

\* raise SoundCloudError("couldn't find a soundcloud client id...")
NotFound ==
    /\ s_pc = "js"
    /\ s_i > Len(FirstN(s_urls, ScriptLimit))
    /\ s_result' = [err |-> "CredentialNotFound", token |-> None]
    /\ s_pc' = "done"
    /\ UNCHANGED <<s_html, s_raw, s_urls, s_page, s_i, s_log, s_last, cleanVars, mainVars>>

NextScrape ==
    \/ FetchRoot
    \/ FetchExtra
    \/ ScanHtml
    \/ FetchScript
    \/ NotFound

SpecScrape == InitScrape /\ [][NextScrape]_vars

(***************************************************************************)
(* clean_filename alone: one call on an arbitrary name.                    *)
(***************************************************************************)
ShortLen == 2
MaxNameLen == 5

\* DEL is U+007F, the control character right after the printable ASCII range
NameChars ==
    {"a", " ", "/", "NBSP", "DEL"} \cup ControlChars \cup ForbiddenChars

CoreChars == {"a", " ", "/", "TAB", "DEL", "<"}

Names ==
    UNION {[1..n -> NameChars] : n \in 0..ShortLen}
        \cup UNION {[1..n -> CoreChars] : n \in 0..MaxNameLen}

InitClean ==
    /\ pc = "track"
    /\ err = "none"
    /\ exit_status = -1
    /\ cache_file = <<"a">>
    /\ load_error = FALSE
    /\ save_result = "none"
    /\ saves = 0
    /\ cached_id = <<"a">>
    /\ new_id = None
    /\ client_id = <<"a">>
    /\ scrapes = 0
    /\ probes = <<Probe(<<"a">>, "cache", [net |-> FALSE, status |-> 200])>>
    /\ slept = FALSE
    /\ creds_used = {<<"a">>}
    /\ resolve_resp = [net |-> FALSE, status |-> 200, body |-> "data", jsonexc |-> "requests"]
    /\ resolved_data = NoEntity
    /\ idx = 0
    /\ success_count = 0
    /\ total_count = 0
    /\ outcomes = <<>>
    /\ report = NoReport
    /\ files = {}
    /\ exchanged = <<>>
    /\ saved = <<>>
    /\ s_pc = "idle"
    /\ s_html = NoMatchDoc
    /\ s_raw = <<>>
    /\ s_urls = <<>>
    /\ s_page = 0
    /\ s_i = 0
    /\ s_log = <<>>
    /\ s_last = NoBundle
    /\ s_result = NoResult
    /\ cf_name \in Names
    /\ cf_result = None

\* filename = clean_filename(...)
CleanFilename ==
    /\ cf_result = None
    /\ cf_result' = clean_filename(cf_name)
    /\ UNCHANGED <<cf_name, scrapeVars, mainVars>>

NextClean == CleanFilename

SpecClean == InitClean /\ [][NextClean]_vars

(***************************************************************************)
(* Properties                                                              *)
(***************************************************************************)
LastProbe == probes[Len(probes)]

FailedProbe(src) == \E i \in 1..Len(probes) : probes[i].src = src /\ ~probes[i].valid

ScrapeProbes == {i \in 1..Len(probes) : probes[i].src # "cache"}

IsPlaylist == resolved_data.kind \in {"playlist", "system-playlist"}

\* get_client_id raised (and was not cancelled)
ObtainFailed == pc = "exit" /\ client_id = None /\ err # "KeyboardInterrupt"

\* what resolve_soundcloud_url raised, "none" when it returned or has not run
ResolveError ==
    IF resolve_resp # NoResp /\ resolved_data = NoEntity THEN err ELSE "none"

\* C1: when the store holds a non-empty credential and the validator confirms
\* it, find_client_id is never called and get_client_id returns the cached
\* credential (the stripped file content), after that single probe.
C1_CachedValidNoScrape ==
    (probes # <<>> /\ probes[1].src = "cache" /\ probes[1].valid)
        => /\ scrapes = 0
           /\ Len(probes) = 1
           /\ cached_id # None
           /\ cached_id = Strip(cache_file)
           /\ client_id = cached_id

C1_Witness ==
    /\ probes # <<>> /\ probes[1].src = "cache" /\ probes[1].valid
    /\ client_id = <<"a", "a">>
    /\ report # NoReport

\* C2: find_client_id is called at most twice; the second call comes only
\* after the first candidate failed validation and after the sleep; and
\* CredentialUnavailable is raised only after exactly two scrapes whose
\* candidates both failed validation.
C2_AtMostTwoScrapes ==
    /\ scrapes <= 2
    /\ (slept => scrapes >= 1 /\ FailedProbe("scrape1"))
    /\ (scrapes = 2 => slept /\ FailedProbe("scrape1"))
    /\ (pc = "scrape2" => slept /\ scrapes = 1)
    /\ (err = "CredentialUnavailable" =>
            /\ scrapes = 2
            /\ FailedProbe("scrape1")
            /\ FailedProbe("scrape2")
            /\ ~LastProbe.valid)

C2_Witness ==
    /\ pc = "exit"
    /\ err = "CredentialUnavailable"
    /\ scrapes = 2
    /\ slept

\* C3 (as claimed): in a playlist run that is not cancelled, a track before
\* the last one that is skipped or fails with CredentialRejected,
\* MediaUrlMissing or a transport error does not stop the loop: every later
\* track is attempted and the report is printed.
C3_TrackFailureDoesNotHalt ==
    (/\ pc = "exit"
     /\ IsPlaylist
     /\ err \in {"none", "CredentialRejected", "MediaUrlMissing", "TransportError"}
     /\ \E i \in 1..Len(outcomes) :
            /\ i < Len(TracksOf(resolved_data))
            /\ outcomes[i] \in {"skipped", "CredentialRejected", "MediaUrlMissing", "TransportError"})
        => /\ Len(outcomes) = Len(TracksOf(resolved_data))
           /\ report # NoReport

\* C4: once get_client_id has returned, no step calls the validator or the
\* scraper again, the credential does not change, and every API call carries
\* that credential, also after a 401/403 answer.
C4_NoRevalidationAfterObtain ==
    [][client_id # None =>
        /\ scrapes' = scrapes
        /\ probes' = probes
        /\ client_id' = client_id
        /\ creds_used' \subseteq {client_id}]_vars

C4_Witness ==
    /\ pc = "exit"
    /\ Len(outcomes) = 2
    /\ outcomes[1] = "ok"
    /\ outcomes[2] = "CredentialRejected"
    /\ creds_used = {client_id}

\* C5 (as claimed): check_client_id_valid returns true exactly when the probe
\* was answered with a 2xx status.
C5_ValidIff2xx ==
    \A i \in 1..Len(probes) : probes[i].valid <=> probes[i].success

\* C6 (as claimed): a run of get_client_id that fails, fails with
\* CredentialUnavailable.
C6_OnlyCredentialUnavailable ==
    ObtainFailed => err = "CredentialUnavailable"

\* C6 (amended): a run of get_client_id that fails (and is not cancelled)
\* fails with CredentialUnavailable after two scrapes whose candidates both
\* failed validation, or with the error of the scraper call that raised:
\* CredentialNotFound or a transport error of the root page fetch.
C6_ObtainFailureKinds ==
    ObtainFailed =>
        \/ /\ err = "CredentialUnavailable"
           /\ scrapes = 2
           /\ Cardinality(ScrapeProbes) = 2
        \/ /\ err \in {"CredentialNotFound", "TransportError"}
           /\ scrapes \in {1, 2}
           /\ Cardinality(ScrapeProbes) = scrapes - 1

C6_Witness ==
    /\ ObtainFailed
    /\ err = "CredentialNotFound"
    /\ scrapes = 2

\* C7 (as claimed): resolve_soundcloud_url fails with UnresolvableUrl exactly
\* when the endpoint answers 404 or gives an answer that is not an HTTP error
\* and carries no data.
C7_UnresolvableIff404OrNoData ==
    resolve_resp # NoResp =>
        (ResolveError = "UnresolvableUrl" <=>
            \/ (~resolve_resp.net /\ resolve_resp.status = 404)
            \/ /\ ~resolve_resp.net
               /\ ResponseOk(resolve_resp.status)
               /\ resolve_resp.body \in {"null", "empty"})

\* C8 (as claimed): the resolver fails with CredentialRejected exactly on 401
\* and 403; every other non-2xx status and every network failure ends in
\* UnresolvableUrl or a transport error.
C8_RejectedIff401Or403 ==
    resolve_resp # NoResp =>
        /\ ResolveError = "CredentialRejected" <=>
                (~resolve_resp.net /\ resolve_resp.status \in {401, 403})
        /\ (~Is2xx(resolve_resp) /\ ~(~resolve_resp.net /\ resolve_resp.status \in {401, 403}))
                => ResolveError \in {"UnresolvableUrl", "TransportError"}

\* C9: save_client_id is called at most once, only with the candidate the
\* validator confirmed in its last probe; when get_client_id returns a scraped
\* credential and the write went through, the store holds that credential.
C9_StoreHoldsReturned ==
    /\ saves <= 1
    /\ (saves = 1 =>
            /\ probes # <<>>
            /\ LastProbe.valid
            /\ LastProbe.src # "cache"
            /\ LastProbe.cid = new_id)
    /\ (save_result = "ok" => client_id = new_id /\ cache_file = client_id)
    /\ (client_id # None /\ scrapes > 0 => saves = 1)

C9_Witness ==
    /\ save_result = "ok"
    /\ cached_id = <<"a">>
    /\ client_id = <<"b">>
    /\ cache_file = <<"b">>
    /\ scrapes = 2

\* C10: store failures do not change what get_client_id does: after a read
\* error it has no cached id, probes nothing from the cache and goes on to
\* the scrape, as for an absent or blank file; after a failed write it
\* returns the candidate it just validated; neither error reaches the caller.
C10_StoreFailuresSwallowed ==
    /\ (load_error \/ cache_file = None \/ (saves = 0 /\ Strip(cache_file) = <<>>)) =>
            /\ pc # "load" => cached_id = None
            /\ \A i \in 1..Len(probes) : probes[i].src # "cache"
            /\ pc \notin {"load", "validate_cached"}
                    => (pc = "scrape1" \/ scrapes >= 1 \/ err = "KeyboardInterrupt")
    /\ saves = 1 =>
            /\ client_id = new_id
            /\ LastProbe.valid /\ LastProbe.cid = client_id
            /\ pc = "resolve" => err = "none"

C10_Witness ==
    /\ load_error
    /\ save_result = "failed"
    /\ report # NoReport
    /\ client_id = <<"b">>

\* C12: for a playlist or system playlist whose track list is empty or
\* missing, handle_download raises EmptyPlaylist: no download_track call, no
\* rendition exchange, no download request, no file written, no report.
C12_EmptyPlaylistBeforeAnyDownload ==
    (/\ IsPlaylist
     /\ TracksOf(resolved_data) = <<>>
     /\ pc # "handle"
     /\ err # "KeyboardInterrupt")
        => /\ pc = "exit"
           /\ err = "EmptyPlaylist"
           /\ exit_status = 1
           /\ outcomes = <<>>
           /\ exchanged = <<>>
           /\ saved = <<>>
           /\ files \in InitialDirs
           /\ creds_used = {client_id}
           /\ report = NoReport

C12_Witness ==
    /\ err = "EmptyPlaylist"
    /\ resolved_data.kind = "system-playlist"
    /\ ~resolved_data.has_tracks

\* C18: a run that ends in any error exits with a non-zero status, a
\* cancelled run exits with a status no error uses, and a run that printed
\* its report exits with status zero.
C18_ExitStatus ==
    /\ pc = "exit" <=> exit_status # -1
    /\ pc = "exit" =>
        /\ (err = "none" <=> report # NoReport)
        /\ (err = "none" => exit_status = 0)
        /\ (err # "none" => exit_status # 0)
        /\ (err = "KeyboardInterrupt" => exit_status = 130)
        /\ (err \notin {"none", "KeyboardInterrupt"} => exit_status \notin {0, 130})

C18_Witness ==
    /\ pc = "exit"
    /\ err = "KeyboardInterrupt"
    /\ exit_status = 130
    /\ outcomes = <<"ok">>
    /\ total_count = 2

\* C19: the credential get_client_id returns is the one its last validator
\* probe was made with, and that probe confirmed it; this holds for the
\* cached id, the first scraped candidate and the retry candidate.
C19_ReturnedWasConfirmedLast ==
    client_id # None =>
        /\ probes # <<>>
        /\ LastProbe.valid
        /\ LastProbe.cid = client_id
        /\ LastProbe.src = "cache" => (client_id = cached_id /\ scrapes = 0)
        /\ LastProbe.src = "scrape1" => (client_id = new_id /\ scrapes = 1)
        /\ LastProbe.src = "scrape2" => (client_id = new_id /\ scrapes = 2)

C19_Witness ==
    /\ client_id = <<"b">>
    /\ Len(probes) = 3
    /\ ~probes[1].valid /\ probes[1].cid = <<"a">>
    /\ ~probes[2].valid /\ probes[2].cid = <<"a">>
    /\ probes[3].valid /\ probes[3].src = "scrape2"

\* C20: the store changes only in save_client_id, which is not reached when
\* get_client_id returns the cached credential or raises: on those paths
\* the store keeps its content, a rejected cached credential included.
C20_StoreUntouchedWithoutSave ==
    /\ [][cache_file' # cache_file => (pc = "save" /\ saves' = saves + 1)]_vars
    /\ []((client_id # None /\ scrapes = 0) => saves = 0)
    /\ []((pc = "exit" /\ client_id = None) => saves = 0)

C20_Witness ==
    /\ ObtainFailed
    /\ err = "CredentialUnavailable"
    /\ probes[1].src = "cache"
    /\ ~probes[1].valid
    /\ cached_id = <<"a">>
    /\ cache_file = <<"a", " ">>

\* the tracks handle_download iterates over
RunTracks ==
    IF resolved_data.kind = "track" THEN resolved_data.track
    ELSE TracksOf(resolved_data)

DescriptorEligible(desc) ==
    ContainsAudioMpeg(desc.mime_type) /\ desc.protocol = "progressive"

EligibleIndexes(track) ==
    {j \in 1..Len(track.transcodings) : DescriptorEligible(track.transcodings[j])}

FirstEligible(track) ==
    CHOOSE j \in EligibleIndexes(track) : \A m \in EligibleIndexes(track) : j <= m

\* indexes of the attempted tracks that have an eligible descriptor
AttemptedEligible ==
    {i \in 1..Len(outcomes) : EligibleIndexes(RunTracks[i]) # {}}

\* C11: when the report of a playlist of n tracks is printed, the k tracks
\* without an eligible transcoding were skipped and the other n-k were
\* downloaded, in playlist order, and the report is (n-k)/n; in every
\* completed run 0 <= success <= total = n.
C11_PlaylistReport ==
    report # NoReport =>
        LET n == Len(RunTracks)
            k == Cardinality({i \in 1..n : EligibleIndexes(RunTracks[i]) = {}})
        IN  /\ n >= 1
            /\ total_count = n
            /\ success_count >= 0 /\ success_count <= total_count
            /\ report = <<n - k, n>>
            /\ Len(outcomes) = n
            /\ \A i \in 1..n :
                outcomes[i] = (IF EligibleIndexes(RunTracks[i]) = {} THEN "skipped" ELSE "ok")
            /\ Len(saved) = n - k
            /\ Len(exchanged) = n - k

C11_Witness ==
    /\ resolved_data.kind = "playlist"
    /\ outcomes = <<"ok", "skipped", "ok">>
    /\ report = <<2, 3>>

\* C15: a track without a descriptor that is both MPEG audio and progressive
\* (a track without descriptors included) is skipped without an error and
\* without an API call; for any other track exactly one exchange is made,
\* with the first eligible descriptor of the list.
C15_SelectorFirstEligible ==
    /\ Len(exchanged) = Cardinality(AttemptedEligible)
    /\ \A i \in 1..Len(outcomes) :
        EligibleIndexes(RunTracks[i]) = {} <=> outcomes[i] = "skipped"
    /\ (resolved_data.kind = "track" /\ outcomes # <<>>) =>
        LET track == resolved_data.track[1]
        IN  IF EligibleIndexes(track) = {}
            THEN /\ exchanged = <<>>
                 /\ saved = <<>>
                 /\ creds_used = {client_id}
                 /\ err \in {"none", "KeyboardInterrupt"}
                 /\ pc = "exit" /\ err = "none" => report = <<0, 1>>
            ELSE exchanged = <<track.transcodings[FirstEligible(track)].url>>

C15_Witness ==
    /\ resolved_data.kind = "track"
    /\ Len(resolved_data.track[1].transcodings) = 2
    /\ resolved_data.track[1].transcodings[1].protocol = "hls"
    /\ resolved_data.track[1].transcodings[2].mime_type = "audio/ogg"
    /\ outcomes = <<"skipped">>
    /\ report = <<0, 1>>

\* C16: the path chosen for a download does not exist when it is chosen and
\* is the first free one of "x.mp3", "x (2).mp3", "x (3).mp3", ...; files are
\* only ever added, so successive downloads of same-named tracks take
\* successive free paths and overwrite nothing.
C16_FirstFreePath ==
    /\ \A j \in 1..Len(saved) :
        LET e == saved[j]
        IN  /\ e.path \notin e.dir
            /\ e.path[1] = Filename([title |-> TitleX])
            /\ e.path[2] >= 1
            /\ \A m \in 1..(e.path[2] - 1) : <<e.path[1], m>> \in e.dir
    /\ \A j \in 1..(Len(saved) - 1) :
        /\ saved[j].dir \subseteq saved[j + 1].dir
        /\ saved[j].path \in saved[j + 1].dir
        /\ saved[j + 1].path[2] > saved[j].path[2]
    /\ (saved # <<>> /\ saved[1].dir = {}) =>
        \A j \in 1..Len(saved) : saved[j].path[2] = j
    /\ saved # <<>> => saved[Len(saved)].dir \subseteq files

C16_Witness ==
    /\ Len(saved) = 3
    /\ saved[1].dir = {<<Filename([title |-> TitleX]), 1>>, <<Filename([title |-> TitleX]), 3>>}
    /\ saved[1].path[2] = 2
    /\ saved[2].path[2] = 4
    /\ saved[3].path[2] = 5
    /\ report = <<3, 3>>

IsJsFetch(e) == e.kind = "js"

\* the script fetches of the scraper, in order
JsLog == SelectSeq(s_log, IsJsFetch)

FirstIndex(seq, x) == CHOOSE i \in 1..Len(seq) : seq[i] = x /\ \A m \in 1..(i - 1) : seq[m] # x

\* C13: the scraper looks at the root HTML first and then fetches the script
\* bundles of the de-duplicated, first-seen-ordered URL list one by one; it
\* returns the token of the first document with a match and fetches nothing
\* after it; it never fetches past the 20th URL; a bundle that fails, is
\* empty or has no match is skipped and the scan goes on.
C13_ScrapeOrder ==
    s_pc \in {"js", "done"} /\ s_result.err # "TransportError" =>
        /\ \A i \in 1..Len(s_urls) : \A j \in 1..Len(s_urls) :
                i < j => /\ s_urls[i] # s_urls[j]
                         /\ FirstIndex(s_raw, s_urls[i]) < FirstIndex(s_raw, s_urls[j])
        /\ {s_urls[i] : i \in 1..Len(s_urls)} = {s_raw[i] : i \in 1..Len(s_raw)}
        /\ Len(s_log) = 1 + NumExtraPages + Len(JsLog)
        /\ s_log[1].kind = "root"
        /\ \A k \in 1..NumExtraPages : s_log[1 + k] = LogEntry("extra", PageUrl(k), s_log[1 + k].flag)
        /\ Len(JsLog) <= ScriptLimit
        /\ Len(JsLog) <= Len(s_urls)
        /\ \A j \in 1..Len(JsLog) : JsLog[j].url = s_urls[j]
        /\ \A j \in 1..(Len(JsLog) - 1) : ~JsLog[j].flag
        /\ FirstMatch(s_html) # None =>
                /\ JsLog = <<>>
                /\ s_result = [err |-> "none", token |-> FirstMatch(s_html)]
        /\ (s_pc = "js" /\ JsLog # <<>>) => ~BundleMatches(s_last)
        /\ (s_pc = "done" /\ s_result.err = "none" /\ FirstMatch(s_html) = None) =>
                /\ JsLog # <<>>
                /\ JsLog[Len(JsLog)].flag
                /\ BundleMatches(s_last)
                /\ s_result.token = FirstMatch(s_last.doc)
        /\ (s_pc = "done" /\ s_result.err = "CredentialNotFound") =>
                /\ FirstMatch(s_html) = None
                /\ Len(JsLog) = (IF Len(s_urls) < ScriptLimit THEN Len(s_urls) ELSE ScriptLimit)
                /\ \A j \in 1..Len(JsLog) : ~JsLog[j].flag

C13_Witness ==
    /\ s_pc = "done"
    /\ Len(s_raw) > Len(s_urls)
    /\ Len(s_urls) > ScriptLimit
    /\ Len(JsLog) = ScriptLimit
    /\ s_result = [err |-> "none", token |-> <<"b">>]

\* C14 (as claimed): find_client_id returns a candidate or fails with
\* CredentialNotFound, whatever the fetches of the root page, the extra
\* pages and the bundles answer.
C14_OnlyCredentialNotFound ==
    s_pc = "done" => s_result.err \in {"none", "CredentialNotFound"}

\* C14 (amended): find_client_id returns a candidate, fails with
\* CredentialNotFound, or fails with a transport error exactly when the
\* fetch of the root page failed; a failing extra page or bundle never makes
\* it fail.
C14_ScrapeFailureKinds ==
    /\ s_pc = "done" <=> s_result # NoResult
    /\ s_pc = "done" =>
        /\ s_result.err \in {"none", "CredentialNotFound", "TransportError"}
        /\ s_result.err = "none" <=> s_result.token # None
        /\ s_result.err = "TransportError" <=> s_log = <<LogEntry("root", PageUrl(0), FALSE)>>
    /\ s_log # <<>> /\ s_log[1].flag /\ s_pc \notin {"extra", "done"}
            => Len(s_log) >= 1 + NumExtraPages

C14_Witness ==
    /\ s_pc = "done"
    /\ s_result = [err |-> "none", token |-> <<"a">>]
    /\ Len(s_log) = 1 + NumExtraPages + 2
    /\ ~s_log[2].flag
    /\ ~s_log[3].flag
    /\ s_last.doc[NumPatterns] = <<"a">>

\* C17: whatever the name (letters, spaces, '/', control characters and the
\* characters < > : " \ | ? *), clean_filename returns a non-empty string
\* without any of < > : " \ | ? * and without any control character, with
\* no whitespace at either end and no two whitespace characters in a row,
\* and it returns the default name when nothing of the name remains.
C17_CleanFilename ==
    cf_result # None =>
        /\ cf_result # <<>>
        /\ \A i \in 1..Len(cf_result) :
                /\ cf_result[i] \notin ForbiddenChars
                /\ cf_result[i] \notin ControlChars \cup {"DEL"}
        /\ cf_result[1] \notin WhitespaceChars
        /\ cf_result[Len(cf_result)] \notin WhitespaceChars
        /\ \A i \in 1..(Len(cf_result) - 1) :
                ~(cf_result[i] \in WhitespaceChars /\ cf_result[i + 1] \in WhitespaceChars)
        /\ (\A i \in 1..Len(cf_name) :
                cf_name[i] \in ForbiddenChars \cup ControlChars \cup WhitespaceChars \cup {"DEL"})
            => cf_result = DefaultName

====
